---- MODULE Spec2Model ----
(***************************************************************************)
(* Model of the two MCP weather clients of this repository:                *)
(*   - the Streamlit client  (weather/client/app.py, StreamlitMCPClient)   *)
(*   - the terminal client   (weather/mcp_client.py, MCPChatBot)           *)
(* A behaviour runs one of the two programs (variable client).  The tool   *)
(* providers and the generative model are the environment: what a provider *)
(* lists is fixed per behaviour, whether a launch, handshake, listing or   *)
(* call fails is chosen at every attempt, and every model turn is an       *)
(* arbitrary short sequence of text and tool_use blocks.                   *)
(***************************************************************************)
EXTENDS Integers, Sequences, FiniteSets, TLC

\* ---------------------------------------------------------------- bounds
\* providers in the configuration
NumServers == 2
\* content blocks the model emits over the turns of one query
MaxBlocks == 2
\* queries submitted in one session
MaxQueries == 2
\* catalog builds run on one client object
MaxBuilds == 2

\* ------------------------------------------------------------ vocabulary
Servers == 1..NumServers
ToolNames == {"get_alerts", "get_forecast"}
\* the model may request any name, listed by a provider or not
RequestNames == ToolNames
Clients == {"streamlit", "terminal"}
Configs == {"ok", "missing", "malformed"}

SeqsUpTo(S, n) == UNION {[1..k -> S] : k \in 0..n}

\* what provider s answers to list_tools, in the provider configurations
\* examined:
\*   disjoint  - the first lists get_alerts, the second get_forecast
\*   duplicate - every provider lists get_forecast, none get_alerts
\*   overlap   - several names per provider, in different orders
\*   bare      - providers that list nothing
Patterns == {"disjoint", "duplicate", "overlap", "bare"}

Listing(pattern, s) ==
    CASE pattern = "disjoint" ->
            IF s = 1 THEN <<"get_alerts">>
            ELSE IF s = 2 THEN <<"get_forecast">> ELSE <<>>
      [] pattern = "duplicate" -> <<"get_forecast">>
      [] pattern = "overlap" ->
            IF s = 1 THEN <<"get_alerts", "get_forecast">>
            ELSE IF s = 2 THEN <<"get_forecast", "get_alerts">>
            ELSE <<"get_alerts">>
      [] OTHER -> <<>>

Catalogues == {[s \in Servers |-> Listing(p, s)] : p \in Patterns}

\* one model turn: response.content, a sequence of block kinds, as long as
\* the blocks left for this query allow
BlockKinds == {"text"} \cup RequestNames
Turns(left) == SeqsUpTo(BlockKinds, left)

\* outcomes of opening one provider connection up to list_tools
ConnectOutcomes == {"ok", "launch_failed", "handshake_failed", "list_failed"}
\* outcomes of session.call_tool: a result, a result flagged isError, a raise
CallOutcomes == {"ok", "is_error", "raised"}

VARIABLES client, config, tools, pc, loadIdx, server_configs,
          available_tools, sessions, exit_stack, messages, response, idx,
          assistant_content, has_tool_use, response_text, probe,
          tool_result, calls, modelCalls, emitted, nq, result, loaded,
          connects, probed, builds, previous, ended, errored

\* the weather server (weather/weather_server.py): one get_forecast call
VARIABLES periods, period_idx, forecast, forecasts, returned, fpc

serverVars == <<periods, period_idx, forecast, forecasts, returned, fpc>>

\* one call of initialize_tools or _execute_tool of the Streamlit client,
\* step by step: the contexts open on its AsyncExitStack (stack), the method, the
\* tool it looks for, the provider of the current iteration, the position,
\* what is in flight when the with block is left, and how the call ended
VARIABLES scope_stack, method, tool_name, server_idx, spc, pending, ended_with

scopeVars == <<scope_stack, method, tool_name, server_idx, spc, pending,
               ended_with>>

\* the Streamlit page (the module level of app.py) over the script runs of
\* one UI session: the keys of st.session_state and their values, the
\* position of the running script, the event that started the run, the input
\* widgets drawn on the page, the runs so far and the initialize_tools calls
\* made with their outcomes
VARIABLES keys, session_messages, mcp_client, client_initialized, run_pc,
          event, widgets, runs, init_calls

pageVars == <<keys, session_messages, mcp_client, client_initialized,
              run_pc, event, widgets, runs, init_calls>>

\* the state outside the two clients as modelled in Spec
sideVars == <<serverVars, scopeVars, pageVars>>

vars == <<client, config, tools, pc, loadIdx, server_configs,
          available_tools, sessions, exit_stack, messages, response, idx,
          assistant_content, has_tool_use, response_text, probe,
          tool_result, calls, modelCalls, emitted, nq, result, loaded,
          connects, probed, builds, previous, ended, errored, sideVars>>

\* ------------------------------------------------------------ data shapes
TextBlock(id) ==
    [type |-> "text", name |-> "", id |-> id, server |-> 0, content |-> ""]

ToolUseBlock(name, id) ==
    [type |-> "tool_use", name |-> name, id |-> id, server |-> 0,
     content |-> ""]

ToolResultBlockWithoutId(id, name, s, outcome) ==
    [type |-> "tool_result", name |-> name, id |-> 0, server |-> s,
     content |-> outcome]

\* {"type": "tool_result", "tool_use_id": content.id, "content": result.content}
ToolResultBlock(id, name, s, outcome) ==
    [type |-> "tool_result", name |-> name, id |-> id, server |-> s,
     content |-> outcome]

Block(kind, id) ==
    IF kind = "text" THEN TextBlock(id) ELSE ToolUseBlock(kind, id)

\* the blocks of one model turn; ids are unique within a query
ModelResponse(turn, before) ==
    [i \in 1..Len(turn) |-> Block(turn[i], before + i)]

\* messages = [{"role": "user", "content": query}]
UserMessage == [role |-> "user", turn |-> 0, content |-> <<TextBlock(0)>>]

\* {"role": "assistant", "content": assistant_content}: the dict holds the
\* list object itself; turn names the list (one list per model call)
AssistantMessage(turn, content) ==
    [role |-> "assistant", turn |-> turn, content |-> content]

ToolResultMessage(block) ==
    [role |-> "user", turn |-> 0, content |-> <<block>>]

\* assistant_content.append(content): every message that holds this turn's
\* list sees the appended block
AppendAliased(msgs, turn, content) ==
    [i \in 1..Len(msgs) |->
        IF msgs[i].role = "assistant" /\ msgs[i].turn = turn
        THEN [msgs[i] EXCEPT !.content = content]
        ELSE msgs[i]]

\* {"name": tool.name, "description": tool.description, ...}: the
\* description and schema are the listing provider's, named by the provider
Descriptor(s, name) == [name |-> name, description |-> s]

DescriptorsReversed(s, listing) ==
    [i \in 1..Len(listing) |-> Descriptor(s, listing[Len(listing) + 1 - i])]

RECURSIVE Descriptors(_, _)
Descriptors(s, listing) ==
    IF listing = <<>> THEN <<>>
    ELSE <<Descriptor(s, Head(listing))>> \o Descriptors(s, Tail(listing))

\* for tool in response.tools: self.sessions[tool.name] = session
RegisterSessions(map, s, listing) ==
    [n \in RequestNames |->
        IF \E i \in 1..Len(listing) : listing[i] = n THEN s ELSE map[n]]

HasAnyTool(listing, name) == listing # <<>>

\* tool_name in available_tool_names
HasTool(listing, name) == \E i \in 1..Len(listing) : listing[i] = name

NoResult ==
    [success |-> FALSE, server |-> 0, content |-> "", error |-> "none",
     name |-> ""]

\* {"success": True, "content": result.content}
FoundResult(s, outcome) ==
    [success |-> TRUE, server |-> s, content |-> outcome, error |-> "",
     name |-> ""]

\* {"success": False, "error": f"Tool '{tool_name}' not found on any server"}
NotFoundResult(name) ==
    [success |-> FALSE, server |-> 0, content |-> "", error |-> "not_found",
     name |-> name]

\* {"success": False, "error": f"Tool execution error: {e}"}
ExecutionErrorResult(name) ==
    [success |-> FALSE, server |-> 0, content |-> "",
     error |-> "execution_error", name |-> ""]

\* the catalog and routing table of the build before the current one
NoBuild == [available_tools |-> <<>>, sessions |-> [n \in RequestNames |-> 0],
            connects |-> <<>>]

\* what process_query has returned: kind and the text it carries
NoReturn == [kind |-> "none", text |-> <<>>]

NoSessions == [n \in RequestNames |-> 0]

\* how main has ended: by what, the providers with a context whose exit
\* raised during cleanup, and the exception that left main
NotEnded == [by |-> "none", close_failed |-> {}, raised |-> "none"]

\* ---------------------------------------------- data shapes, weather server
\* forecast before the first loop iteration has bound it
Unbound == [bound |-> FALSE, period |-> 0]

\* the f-string of one period: name, temperature, wind, detailedForecast
FormatForecast(period) == [bound |-> TRUE, period |-> period]

\* what get_forecast has returned, or the exception it ended with
NotReturned == [kind |-> "none", text |-> <<>>]

\* no step-by-step call is running
ScopeOff ==
    /\ scope_stack = <<>> /\ method = "none" /\ tool_name = ""
    /\ server_idx = 0 /\ spc = "off" /\ pending = "none"
    /\ ended_with = "none"

\* no page is open
PageOff ==
    /\ keys = {} /\ session_messages = <<>>
    /\ mcp_client = "None" /\ client_initialized = FALSE
    /\ run_pc = "off" /\ event = "none" /\ widgets = {}
    /\ runs = 0 /\ init_calls = <<>>

\* no get_forecast call is running
ServerOff ==
    /\ periods = <<>> /\ period_idx = 0
    /\ forecast = Unbound /\ forecasts = <<>>
    /\ returned = NotReturned /\ fpc = "off"

\* ------------------------------------------------------------------ Init
\* the client program after construction
ProgramInit ==
    /\ client \in Clients
    /\ config \in Configs
    /\ tools \in Catalogues
    /\ pc = "start"
    /\ loadIdx = 0
    /\ server_configs = <<>>
    /\ available_tools = <<>>
    /\ sessions = NoSessions
    /\ exit_stack = <<>>
    /\ messages = <<>>
    /\ response = <<>>
    /\ idx = 0
    /\ assistant_content = <<>>
    /\ has_tool_use = FALSE
    /\ response_text = <<>>
    /\ probe = 0
    /\ tool_result = NoResult
    /\ calls = <<>>
    /\ modelCalls = 0
    /\ emitted = 0
    /\ nq = 0
    /\ result = NoReturn
    /\ loaded = "pending"
    /\ connects = <<>>
    /\ probed = <<>>
    /\ builds = 0
    /\ previous = NoBuild
    /\ ended = NotEnded
    /\ errored = {}

Init == ProgramInit /\ ServerOff /\ ScopeOff /\ PageOff

\* the variables of one process_query call
queryVars == <<messages, response, idx, assistant_content, has_tool_use,
               response_text, probe, tool_result, calls, modelCalls,
               emitted, result, probed>>

\* the variables of the catalog and of the provider connections
\* (errored: the providers whose session has raised in call_tool)
catalogVars == <<server_configs, available_tools, sessions, exit_stack,
                 ended, errored>>

envVars == <<client, config, tools, previous, sideVars>>

\* the position and the record of the catalog build
loadVars == <<loadIdx, loaded, connects, builds>>

\* ------------------------------------------------------- loading, shared
\* servers = data.get("mcpServers", {}): the providers in configuration order
ConfiguredServers == [i \in 1..NumServers |-> i]

\* await self.exit_stack.aclose(): every context entered is exited
Cleanup(stack) == <<>>

\* the providers that have a context on the stack
OpenServers(stack) == {stack[i].server : i \in 1..Len(stack)}

\* main's finally: cleanup runs on the way out; aclose goes on with the
\* remaining contexts after an exit that raises and re-raises at the end,
\* and nothing around cleanup catches it
Ended(by, failed) ==
    [by |-> by, close_failed |-> failed,
     raised |-> IF failed # {} THEN "close"
                ELSE IF by = "quit" THEN "none" ELSE by]

\* ------------------------------------------- loading, Streamlit client
\* initialize_tools up to the provider loop: a missing file is reported
\* and the call returns normally; a file that does not parse raises
InitializeToolsConfig ==
    /\ client = "streamlit" /\ pc = "start"
    /\ builds' = builds + 1 /\ connects' = <<>>
    /\ \/ /\ config = "missing"
          /\ loaded' = "ok" /\ pc' = "idle"
          /\ UNCHANGED <<server_configs, loadIdx>>
       \/ /\ config = "malformed"
          /\ loaded' = "failed" /\ pc' = "stopped"
          /\ UNCHANGED <<server_configs, loadIdx>>
       \/ /\ config = "ok"
          /\ server_configs' = ConfiguredServers
          /\ loadIdx' = 1
          /\ loaded' = "pending" /\ pc' = "connecting"
    /\ UNCHANGED <<envVars, available_tools, sessions, exit_stack, ended,
                   errored, queryVars, nq>>

\* one iteration of the provider loop of initialize_tools: any failure
\* leaves the loop through the outer except, which re-raises
InitializeToolsServer ==
    /\ client = "streamlit" /\ pc = "connecting"
    /\ \E o \in ConnectOutcomes :
         /\ connects' = Append(connects, o)
         /\ IF o = "ok"
            THEN /\ available_tools' = available_tools \o
                        Descriptors(loadIdx, tools[loadIdx])
                 /\ loadIdx' = loadIdx + 1
                 /\ IF loadIdx = Len(server_configs)
                    THEN loaded' = "ok" /\ pc' = "idle"
                    ELSE loaded' = loaded /\ pc' = pc
            ELSE /\ loaded' = "failed" /\ pc' = "stopped"
                 /\ UNCHANGED <<available_tools, loadIdx>>
    /\ UNCHANGED <<envVars, server_configs, sessions, exit_stack, ended,
                   errored, queryVars, nq, builds>>

\* -------------------------------------------- loading, terminal client
\* connect_to_servers up to the provider loop: a file that is missing or
\* does not parse raises, main's finally runs cleanup and the program ends
ConnectToServersConfig ==
    /\ client = "terminal" /\ pc = "start"
    /\ builds' = builds + 1 /\ connects' = <<>>
    /\ IF config = "ok"
       THEN /\ loadIdx' = 1 /\ pc' = "connecting"
            /\ loaded' = "pending"
            /\ UNCHANGED <<exit_stack, ended>>
       ELSE /\ loaded' = "failed" /\ pc' = "exited"
            /\ exit_stack' = Cleanup(exit_stack)
            /\ \E failed \in SUBSET OpenServers(exit_stack) :
                  ended' = Ended("config", failed)
            /\ UNCHANGED loadIdx
    /\ UNCHANGED <<envVars, server_configs, available_tools, sessions,
                   errored, queryVars, nq>>

\* the contexts connect_to_server has entered on self.exit_stack
Entered(s, o) ==
    IF o = "launch_failed" THEN <<>>
    ELSE <<[kind |-> "stdio", server |-> s],
           [kind |-> "session", server |-> s]>>

\* connect_to_server for the next provider: every failure is printed and
\* swallowed, the loop of connect_to_servers goes on
ConnectToServer ==
    /\ client = "terminal" /\ pc = "connecting"
    /\ \E o \in ConnectOutcomes :
         /\ connects' = Append(connects, o)
         /\ exit_stack' = exit_stack \o Entered(loadIdx, o)
         /\ IF o = "ok"
            THEN /\ sessions' = RegisterSessions(sessions, loadIdx,
                                                 tools[loadIdx])
                 /\ available_tools' = available_tools \o
                        Descriptors(loadIdx, tools[loadIdx])
            ELSE UNCHANGED <<sessions, available_tools>>
    /\ loadIdx' = loadIdx + 1
    /\ IF loadIdx = Len(ConfiguredServers)
       THEN loaded' = "ok" /\ pc' = "idle"
       ELSE loaded' = loaded /\ pc' = pc
    /\ UNCHANGED <<envVars, server_configs, ended, errored, queryVars, nq,
                   builds>>

\* ------------------------------------------------ process_query, shared
BeginQueryKeepsHistory ==
    /\ messages' = Append(messages, UserMessage)
    /\ response' = <<>> /\ idx' = 0
    /\ assistant_content' = <<>> /\ has_tool_use' = FALSE
    /\ response_text' = <<>> /\ probe' = 0
    /\ tool_result' = NoResult /\ calls' = <<>> /\ probed' = <<>>
    /\ modelCalls' = 0 /\ emitted' = 0 /\ result' = NoReturn
    /\ nq' = nq + 1

\* messages = [{"role": "user", "content": query}]; response_text = ""
BeginQuery ==
    /\ messages' = <<UserMessage>>
    /\ response' = <<>> /\ idx' = 0
    /\ assistant_content' = <<>> /\ has_tool_use' = FALSE
    /\ response_text' = <<>> /\ probe' = 0
    /\ tool_result' = NoResult /\ calls' = <<>> /\ probed' = <<>>
    /\ modelCalls' = 0 /\ emitted' = 0 /\ result' = NoReturn
    /\ nq' = nq + 1

\* the content block the for loop of process_query is at
Current == response[idx]

\* the record of one session.call_tool: which connection, which request
CallRecord(s, block, o) ==
    [server |-> s, name |-> block.name, id |-> block.id, outcome |-> o]

LeavesLoopOnToolUse(used) == used

LeavesLoopAlways(used) == TRUE

\* if not has_tool_use: break
LeavesLoop(used) == ~used

FinalTextNeverPlaceholder(text) == [kind |-> "text", text |-> text]

\* response_text.strip() if response_text.strip() else "No response generated."
FinalText(text) ==
    IF text = <<>> THEN [kind |-> "placeholder", text |-> <<>>]
    ELSE [kind |-> "text", text |-> text]

\* self.anthropic.messages.create(...) returns one turn
CallModel ==
    /\ pc = "awaiting_model"
    /\ \E t \in Turns(MaxBlocks - emitted) :
          /\ response' = ModelResponse(t, emitted)
          /\ emitted' = emitted + Len(t)
    /\ modelCalls' = modelCalls + 1
    /\ assistant_content' = <<>> /\ has_tool_use' = FALSE
    /\ idx' = 1 /\ pc' = "content"
    /\ UNCHANGED <<envVars, catalogVars, loadVars, nq, messages,
                   response_text, probe, tool_result, calls, result, probed>>

\* self.anthropic.messages.create(...) raises: the Streamlit client returns
\* the error text, the terminal client lets it reach chat_loop, which prints
CallModelFails ==
    /\ pc = "awaiting_model"
    /\ modelCalls' = modelCalls + 1
    /\ result' = IF client = "streamlit"
                 THEN [kind |-> "error", text |-> <<>>]
                 ELSE [kind |-> "raised", text |-> <<>>]
    /\ pc' = "idle"
    /\ UNCHANGED <<envVars, catalogVars, loadVars, nq, messages, response,
                   idx, assistant_content, has_tool_use, response_text,
                   probe, tool_result, calls, emitted, probed>>

\* content.type == "text"
TextContent ==
    /\ pc = "content" /\ idx <= Len(response) /\ Current.type = "text"
    /\ assistant_content' = Append(assistant_content, Current)
    /\ messages' = AppendAliased(messages, modelCalls, assistant_content')
    /\ response_text' = IF client = "streamlit"
                        THEN Append(response_text, Current)
                        ELSE response_text
    /\ idx' = idx + 1
    /\ UNCHANGED <<envVars, catalogVars, loadVars, nq, pc, response,
                   has_tool_use, probe, tool_result, calls, modelCalls,
                   emitted, result, probed>>

\* the for loop over response.content is over: leave the while loop when
\* the turn used no tool, else call the model again
EndOfTurn ==
    /\ pc = "content" /\ idx > Len(response)
    /\ IF LeavesLoop(has_tool_use)
       THEN /\ pc' = "idle"
            /\ result' = IF client = "streamlit"
                         THEN FinalText(response_text)
                         ELSE [kind |-> "returned", text |-> <<>>]
       ELSE /\ pc' = "awaiting_model"
            /\ UNCHANGED result
    /\ UNCHANGED <<envVars, catalogVars, loadVars, nq, messages, response,
                   idx, assistant_content, has_tool_use, response_text,
                   probe, tool_result, calls, modelCalls, emitted, probed>>

\* --------------------------------------- process_query, Streamlit client
\* if prompt := st.chat_input(...): process_query(prompt)
StreamlitQuery ==
    /\ client = "streamlit" /\ pc = "idle" /\ loaded = "ok"
    /\ nq < MaxQueries
    /\ BeginQuery
    /\ pc' = "awaiting_model"
    /\ UNCHANGED <<envVars, catalogVars, loadVars>>

\* content.type == "tool_use", up to the call of _execute_tool
StreamlitToolUse ==
    /\ client = "streamlit"
    /\ pc = "content" /\ idx <= Len(response) /\ Current.type = "tool_use"
    /\ has_tool_use' = TRUE
    /\ assistant_content' = Append(assistant_content, Current)
    /\ messages' = Append(
          AppendAliased(messages, modelCalls, assistant_content'),
          AssistantMessage(modelCalls, assistant_content'))
    /\ probe' = 1 /\ probed' = <<>> /\ pc' = "execute_tool"
    /\ UNCHANGED <<envVars, catalogVars, loadVars, nq, response, idx,
                   response_text, tool_result, calls, modelCalls, emitted,
                   result>>

\* what can be raised inside the try of one provider iteration
ProbeExceptions == {"launch_failed", "handshake_failed", "list_failed",
                    "raised"}

InnerCatchesCallOnly(out) == out = "raised"

\* except Exception as server_error: continue
InnerCatches(out) == out \in ProbeExceptions

\* how one provider iteration of _execute_tool ends: with the next
\* provider, with the result, or in the outer except of _execute_tool
ProbeStep(out) ==
    IF out \in ProbeExceptions
    THEN IF InnerCatches(out) THEN "continue" ELSE "outer"
    ELSE IF out = "not_listed" THEN "continue" ELSE "return"

\* what one provider iteration comes to: o is the connection up to
\* list_tools, c the call, made only when the provider lists the tool
ProbeOutcome(s, name, o, c) ==
    IF o # "ok" THEN o
    ELSE IF HasTool(tools[s], name) THEN c ELSE "not_listed"

\* logger.error(f"Error with server {server_name}: {server_error}"): what
\* the probe of one provider leaves in the record of this dispatch
Logged(out) ==
    IF out \in {"launch_failed", "handshake_failed", "list_failed"}
    THEN "unreachable" ELSE out

ToolResultIgnored(res, s) ==
    /\ idx' = idx + 1
    /\ pc' = "content"
    /\ UNCHANGED <<response_text, messages, result>>

\* if tool_result["success"]: the text and the tool_result message are
\* recorded and the for loop goes on
\* else: return f"{response_text}\n\n... {tool_result['error']}"
ToolResultHandled(res, s) ==
    IF res.success
    THEN /\ response_text' = Append(response_text,
               ToolResultBlock(Current.id, Current.name, s, res.content))
         /\ messages' = Append(messages, ToolResultMessage(
               ToolResultBlock(Current.id, Current.name, s, res.content)))
         /\ idx' = idx + 1
         /\ pc' = "content"
         /\ UNCHANGED result
    ELSE /\ result' = [kind |-> "tool_failed", text |-> response_text]
         /\ pc' = "idle"
         /\ UNCHANGED <<response_text, messages, idx>>

\* one iteration of the provider loop of _execute_tool; when it returns,
\* process_query handles the result in the same step
ExecuteToolServer ==
    /\ client = "streamlit"
    /\ pc = "execute_tool" /\ probe <= Len(server_configs)
    /\ LET s == server_configs[probe] IN
       \E o \in ConnectOutcomes, c \in CallOutcomes :
         LET out == ProbeOutcome(s, Current.name, o, c) IN
         /\ probed' = Append(probed, Logged(out))
         /\ calls' = IF out \in CallOutcomes
                     THEN Append(calls, CallRecord(s, Current, out))
                     ELSE calls
         /\ CASE ProbeStep(out) = "continue" ->
                   /\ probe' = probe + 1
                   /\ UNCHANGED <<tool_result, response_text, messages, idx,
                                  pc, result>>
              [] ProbeStep(out) = "return" ->
                   /\ tool_result' = FoundResult(s, out)
                   /\ probe' = 0
                   /\ ToolResultHandled(tool_result', s)
              [] OTHER ->
                   /\ tool_result' = ExecutionErrorResult(Current.name)
                   /\ probe' = 0
                   /\ ToolResultHandled(tool_result', s)
    /\ UNCHANGED <<envVars, catalogVars, loadVars, nq, response,
                   assistant_content, has_tool_use, modelCalls, emitted>>

\* the provider loop of _execute_tool is over without a result: the
\* failure is returned and process_query returns the error text at once
ExecuteToolNotFound ==
    /\ client = "streamlit"
    /\ pc = "execute_tool" /\ probe > Len(server_configs)
    /\ tool_result' = NotFoundResult(Current.name)
    /\ probe' = 0
    /\ ToolResultHandled(tool_result', 0)
    /\ UNCHANGED <<envVars, catalogVars, loadVars, nq, response,
                   assistant_content, has_tool_use, calls, modelCalls,
                   emitted, probed>>

\* ---------------------------------------- process_query, terminal client
\* query = input(...); await self.process_query(query)
TerminalQuery ==
    /\ client = "terminal" /\ pc = "idle"
    /\ nq < MaxQueries
    /\ BeginQuery
    /\ pc' = "awaiting_model"
    /\ UNCHANGED <<envVars, catalogVars, loadVars>>

\* session = self.sessions.get(content.name)
SessionFor(map, name) == map[name]

\* content.type == "tool_use": the session is looked up; without one the
\* for loop is left (break), with one the tool is called on it; a raise of
\* call_tool leaves process_query and is printed by chat_loop
TerminalToolUse ==
    /\ client = "terminal"
    /\ pc = "content" /\ idx <= Len(response) /\ Current.type = "tool_use"
    /\ has_tool_use' = TRUE
    /\ assistant_content' = Append(assistant_content, Current)
    /\ LET appended == Append(
              AppendAliased(messages, modelCalls, assistant_content'),
              AssistantMessage(modelCalls, assistant_content'))
           s == SessionFor(sessions, Current.name)
       IN
       IF s = 0
       THEN /\ messages' = appended
            /\ idx' = Len(response) + 1
            /\ UNCHANGED <<calls, pc, result, errored>>
       ELSE \E c \in CallOutcomes :
            /\ calls' = Append(calls, CallRecord(s, Current, c))
            /\ IF c = "raised"
               THEN /\ messages' = appended
                    /\ result' = [kind |-> "raised", text |-> <<>>]
                    /\ errored' = errored \cup {s}
                    /\ pc' = "idle"
                    /\ UNCHANGED idx
               ELSE /\ messages' = Append(appended, ToolResultMessage(
                          ToolResultBlock(Current.id, Current.name, s, c)))
                    /\ idx' = idx + 1
                    /\ UNCHANGED <<pc, result, errored>>
    /\ UNCHANGED <<envVars, server_configs, available_tools, sessions,
                   exit_stack, ended, loadVars, nq, response,
                   response_text, probe, tool_result, modelCalls, emitted,
                   probed>>

\* query.lower() == "quit": chat_loop ends, main's finally runs cleanup
Quit ==
    /\ client = "terminal" /\ pc = "idle"
    /\ exit_stack' = Cleanup(exit_stack)
    /\ \E failed \in SUBSET OpenServers(exit_stack) :
          ended' = Ended("quit", failed)
    /\ pc' = "exited"
    /\ UNCHANGED <<envVars, server_configs, available_tools, sessions,
                   errored, loadVars, nq, queryVars>>

\* input() is interrupted: KeyboardInterrupt is no Exception, the except
\* of chat_loop lets it through and main's finally runs cleanup
Interrupt ==
    /\ client = "terminal" /\ pc = "idle"
    /\ exit_stack' = Cleanup(exit_stack)
    /\ \E failed \in SUBSET OpenServers(exit_stack) :
          ended' = Ended("interrupt", failed)
    /\ pc' = "exited"
    /\ UNCHANGED <<envVars, server_configs, available_tools, sessions,
                   errored, loadVars, nq, queryVars>>

\* ----------------------------------------------------- specifications
Next ==
    \/ InitializeToolsConfig
    \/ InitializeToolsServer
    \/ ConnectToServersConfig
    \/ ConnectToServer
    \/ StreamlitQuery
    \/ TerminalQuery
    \/ CallModel
    \/ CallModelFails
    \/ TextContent
    \/ StreamlitToolUse
    \/ ExecuteToolServer
    \/ ExecuteToolNotFound
    \/ TerminalToolUse
    \/ EndOfTurn
    \/ Quit
    \/ Interrupt

Spec == Init /\ [][Next]_vars

\* initialize_tools / connect_to_servers called once more on a client that
\* is already loaded: nothing in either method resets available_tools,
\* sessions or exit_stack before the provider loop runs again
Rebuild ==
    /\ pc = "idle" /\ loaded = "ok" /\ builds < MaxBuilds
    /\ previous' = [available_tools |-> available_tools,
                    sessions |-> sessions, connects |-> connects]
    /\ pc' = "start"
    /\ UNCHANGED <<client, config, tools, sideVars, catalogVars, loadVars,
                   nq, queryVars>>

NextReload == Next \/ Rebuild

SpecReload == Init /\ [][NextReload]_vars

\* ------------------------------------------- weather server, get_forecast
\* periods in the forecast response
MaxPeriods == 6
\* periods[:5]
ShownPeriods == 5

\* a period, named by what its fields hold
PeriodKinds == {"day", "night"}

\* forecast_data["properties"]["periods"]
PeriodLists == SeqsUpTo(PeriodKinds, MaxPeriods)

Min(a, b) == IF a <= b THEN a ELSE b

\* "\n---\n".join(forecasts)
RECURSIVE Join(_)
Join(fs) ==
    IF Len(fs) <= 1 THEN fs
    ELSE <<Head(fs), "---">> \o Join(Tail(fs))

\* the program parked: only the weather server moves
ProgramParked ==
    /\ ProgramInit
    /\ client = "terminal" /\ config = "ok"
    /\ tools = [s \in Servers |-> Listing("disjoint", s)]

InitForecast ==
    /\ ProgramParked /\ ScopeOff /\ PageOff
    /\ periods = <<>> /\ period_idx = 0
    /\ forecast = Unbound /\ forecasts = <<>>
    /\ returned = NotReturned /\ fpc = "fetch"

programVars == <<client, config, tools, previous, catalogVars, loadVars,
                 queryVars, nq, pc>>

\* everything but the weather server
exceptServer == <<programVars, scopeVars, pageVars>>

\* the two make_nws_request calls: either may come back empty, and then
\* get_forecast returns its message; otherwise the periods are read and
\* forecasts = []
GetForecastFetch ==
    /\ fpc = "fetch"
    /\ \/ /\ \E why \in {"no_points", "no_forecast"} :
                returned' = [kind |-> why, text |-> <<>>]
          /\ fpc' = "done"
          /\ UNCHANGED <<periods, period_idx>>
       \/ /\ \E ps \in PeriodLists : periods' = ps
          /\ period_idx' = 1 /\ fpc' = "loop"
          /\ UNCHANGED returned
    /\ UNCHANGED <<forecast, forecasts, exceptServer>>

\* one iteration of 'for period in periods[:5]': forecast is bound to the
\* formatted period, and nothing else happens in the loop body
ForecastPeriod ==
    /\ fpc = "loop"
    /\ period_idx <= Min(Len(periods), ShownPeriods)
    /\ forecast' = FormatForecast(periods[period_idx])
    /\ period_idx' = period_idx + 1
    /\ UNCHANGED <<periods, forecasts, returned, fpc, exceptServer>>

\* forecasts.append(forecast), after the loop: the name forecast is
\* unbound when the loop body never ran
ForecastAppend ==
    /\ fpc = "loop"
    /\ period_idx > Min(Len(periods), ShownPeriods)
    /\ IF forecast.bound
       THEN /\ forecasts' = Append(forecasts, forecast)
            /\ fpc' = "join"
            /\ UNCHANGED returned
       ELSE /\ returned' = [kind |-> "raised", text |-> <<>>]
            /\ fpc' = "done"
            /\ UNCHANGED forecasts
    /\ UNCHANGED <<periods, period_idx, forecast, exceptServer>>

\* return "\n---\n".join(forecasts)
ForecastReturn ==
    /\ fpc = "join"
    /\ returned' = [kind |-> "text", text |-> Join(forecasts)]
    /\ fpc' = "done"
    /\ UNCHANGED <<periods, period_idx, forecast, forecasts, exceptServer>>

NextForecast ==
    \/ GetForecastFetch
    \/ ForecastPeriod
    \/ ForecastAppend
    \/ ForecastReturn

SpecForecast == InitForecast /\ [][NextForecast]_vars

\* ------------------- Streamlit client, provider connections step by step
\* everything but the step-by-step call
exceptScope == <<programVars, serverVars, pageVars>>

ScopedMethods == {"initialize_tools", "_execute_tool"}

InitScoped ==
    /\ ProgramInit /\ client = "streamlit" /\ config = "ok"
    /\ ServerOff /\ PageOff
    /\ scope_stack = <<>> /\ method = "none" /\ tool_name = ""
    /\ server_idx = 0 /\ spc = "idle" /\ pending = "none"
    /\ ended_with = "none"

\* a call of initialize_tools, or of _execute_tool for some tool name,
\* starts with the first configured provider
ScopeBegin ==
    /\ spc \in {"idle", "returned", "raised"}
    /\ \E m \in ScopedMethods :
         /\ method' = m
         /\ IF m = "_execute_tool"
            THEN \E n \in RequestNames : tool_name' = n
            ELSE tool_name' = ""
    /\ server_idx' = 1 /\ spc' = "enter_stdio"
    /\ pending' = "none" /\ ended_with' = "none"
    /\ UNCHANGED <<scope_stack, exceptScope>>

\* an exception inside the with block: the inner except of _execute_tool
\* catches it and continues with the next provider; initialize_tools has
\* no handler inside the block, the exception travels on
AfterException(m) == IF m = "_execute_tool" THEN "none" ELSE "exception"

ExitCompleteEarly(st) == TRUE

\* the with block is left once every context entered on the stack has
\* been exited
ExitComplete(st) == st = <<>>

\* stack.enter_async_context(stdio_client(server_params))
EnterStdio ==
    /\ spc = "enter_stdio"
    /\ \E ok \in BOOLEAN :
         IF ok
         THEN /\ scope_stack' = Append(scope_stack,
                    [kind |-> "stdio", server |-> server_idx])
              /\ spc' = "enter_session" /\ UNCHANGED pending
         ELSE /\ spc' = "exit" /\ pending' = AfterException(method)
              /\ UNCHANGED scope_stack
    /\ UNCHANGED <<method, tool_name, server_idx, ended_with, exceptScope>>

\* stack.enter_async_context(ClientSession(read, write))
EnterSession ==
    /\ spc = "enter_session"
    /\ \E ok \in BOOLEAN :
         IF ok
         THEN /\ scope_stack' = Append(scope_stack,
                    [kind |-> "session", server |-> server_idx])
              /\ spc' = "initialize" /\ UNCHANGED pending
         ELSE /\ spc' = "exit" /\ pending' = AfterException(method)
              /\ UNCHANGED scope_stack
    /\ UNCHANGED <<method, tool_name, server_idx, ended_with, exceptScope>>

\* await session.initialize()
SessionInitialize ==
    /\ spc = "initialize"
    /\ \E ok \in BOOLEAN :
         IF ok THEN spc' = "list_tools" /\ UNCHANGED pending
         ELSE spc' = "exit" /\ pending' = AfterException(method)
    /\ UNCHANGED <<scope_stack, method, tool_name, server_idx, ended_with,
                   exceptScope>>

\* await session.list_tools(): initialize_tools reads the tools and leaves
\* the block; _execute_tool calls the tool when the provider lists it and
\* leaves the block otherwise
ListTools ==
    /\ spc = "list_tools"
    /\ \E ok \in BOOLEAN :
         IF ~ok THEN spc' = "exit" /\ pending' = AfterException(method)
         ELSE IF method = "_execute_tool"
                 /\ HasTool(tools[server_idx], tool_name)
              THEN spc' = "call_tool" /\ UNCHANGED pending
              ELSE spc' = "exit" /\ pending' = "none"
    /\ UNCHANGED <<scope_stack, method, tool_name, server_idx, ended_with,
                   exceptScope>>

\* await session.call_tool(...): the return statement sits inside the with
\* block
CallTool ==
    /\ spc = "call_tool"
    /\ \E c \in CallOutcomes :
         pending' = IF c = "raised" THEN AfterException(method) ELSE "return"
    /\ spc' = "exit"
    /\ UNCHANGED <<scope_stack, method, tool_name, server_idx, ended_with,
                   exceptScope>>

\* the exit of the with block exits the contexts last in, first out; an
\* exit that raises does not stop the others, its exception leaves the
\* block in place of whatever was in flight
ExitContext ==
    /\ spc = "exit" /\ scope_stack # <<>>
    /\ scope_stack' = SubSeq(scope_stack, 1, Len(scope_stack) - 1)
    /\ \E ok \in BOOLEAN :
         pending' = IF ok THEN pending ELSE "exception"
    /\ UNCHANGED <<method, tool_name, server_idx, spc, ended_with,
                   exceptScope>>

\* after the with block: a return returns; an exception is re-raised by
\* the outer except of initialize_tools and turned into the failure result
\* by the outer except of _execute_tool; otherwise the loop goes on with
\* the next provider, and after the last one initialize_tools returns and
\* _execute_tool returns tool-not-found
LeaveScope ==
    /\ spc = "exit" /\ ExitComplete(scope_stack)
    /\ pending' = "none"
    /\ CASE pending = "return" ->
              /\ spc' = "returned" /\ ended_with' = "found"
              /\ UNCHANGED server_idx
         [] pending = "exception" ->
              /\ IF method = "initialize_tools"
                 THEN spc' = "raised" /\ ended_with' = "raised"
                 ELSE spc' = "returned" /\ ended_with' = "execution_error"
              /\ UNCHANGED server_idx
         [] OTHER ->
              IF server_idx < NumServers
              THEN /\ server_idx' = server_idx + 1 /\ spc' = "enter_stdio"
                   /\ UNCHANGED ended_with
              ELSE /\ spc' = "returned"
                   /\ ended_with' = IF method = "initialize_tools"
                                    THEN "loaded" ELSE "not_found"
                   /\ UNCHANGED server_idx
    /\ UNCHANGED <<scope_stack, method, tool_name, exceptScope>>

NextScoped ==
    \/ ScopeBegin
    \/ EnterStdio
    \/ EnterSession
    \/ SessionInitialize
    \/ ListTools
    \/ CallTool
    \/ ExitContext
    \/ LeaveScope

SpecScoped == InitScoped /\ [][NextScoped]_vars

\* ------------------------------------------------------- the Streamlit page
\* The module level of app.py is a script that Streamlit runs from the top on
\* the first load and again on every widget event of the UI session;
\* st.session_state is what survives from one run to the next.

\* script runs started by the user in one UI session
MaxRuns == 4

\* everything but the page
exceptPage == <<programVars, serverVars, scopeVars>>

\* what can rerun the script: a submit of the chat input or a click on Clear
\* Chat once a run has drawn the widget (st.stop at 258 ends a run before
\* either is drawn), and at any time a rerun asked from Streamlit's menu
RunKinds(ws) ==
    {"other"} \cup (IF "chat_input" \in ws THEN {"prompt"} ELSE {})
              \cup (IF "clear_chat" \in ws THEN {"clear"} ELSE {})

InitOutcomes == {"ok", "failed", "aborted"}

QueryOutcomes == {"response", "error"}

\* if not st.session_state.client_initialized
NeedsInitAlways(ci) == TRUE

NeedsInit(ci) == ~ci

\* if st.session_state.mcp_client and st.session_state.client_initialized
ClientAvailable(mc, ci) == mc # "None" /\ ci

InitApp ==
    /\ ProgramInit /\ client = "streamlit" /\ config = "ok"
    /\ ServerOff /\ ScopeOff /\ PageOff

\* the page is loaded, or a widget event reruns the script from the top
RunStart ==
    /\ run_pc \in {"off", "waiting", "aborted"}
    /\ runs < MaxRuns
    /\ \E e \in IF run_pc = "off" THEN {"load"}
                 ELSE RunKinds(widgets) : event' = e
    /\ runs' = runs + 1
    /\ run_pc' = "state"
    /\ UNCHANGED <<keys, session_messages, mcp_client, client_initialized,
                   widgets, init_calls, exceptPage>>

\* Initialize session state
SessionStateInit ==
    /\ run_pc = "state"
    /\ keys' = keys \cup {"messages", "mcp_client", "client_initialized"}
    /\ session_messages' =
         IF "messages" \notin keys THEN <<>> ELSE session_messages
    /\ mcp_client' = IF "mcp_client" \notin keys THEN "None" ELSE mcp_client
    /\ client_initialized' =
         IF "mcp_client" \notin keys THEN FALSE ELSE client_initialized
    /\ run_pc' = "init"
    /\ UNCHANGED <<event, widgets, runs, init_calls, exceptPage>>

\* Initialize MCP client only once: a new StreamlitMCPClient whose
\* initialize_tools returns, raises (st.stop ends the run) or is cut short by
\* a new event at one of its st.success calls
InitializeClient ==
    /\ run_pc = "init"
    /\ IF NeedsInit(client_initialized)
       THEN \E o \in InitOutcomes :
              /\ o = "aborted" => runs < MaxRuns
              /\ init_calls' = Append(init_calls, o)
              /\ mcp_client' = IF o = "ok" THEN "client" ELSE mcp_client
              /\ client_initialized' =
                   IF o = "ok" THEN TRUE ELSE client_initialized
              /\ run_pc' = CASE o = "ok" -> "input"
                              [] o = "failed" -> "waiting"
                              [] o = "aborted" -> "aborted"
       ELSE /\ run_pc' = "input"
            /\ UNCHANGED <<init_calls, mcp_client, client_initialized>>
    /\ UNCHANGED <<keys, session_messages, event, widgets, runs, exceptPage>>

\* Display chat history, then handle user input up to the decision whether
\* the query can be processed
HandleInput ==
    /\ run_pc = "input"
    /\ IF event = "prompt"
       THEN /\ session_messages' =
                 Append(session_messages,
                        [role |-> "user", content |-> "prompt"])
            /\ run_pc' = IF ClientAvailable(mcp_client, client_initialized)
                         THEN "processing" ELSE "sidebar"
       ELSE /\ run_pc' = "sidebar"
            /\ UNCHANGED session_messages
    /\ widgets' = widgets \cup {"chat_input"}
    /\ UNCHANGED <<keys, mcp_client, client_initialized, event, runs,
                   init_calls, exceptPage>>

\* Process query: the response, or the text of the exception, is shown and
\* appended as the assistant's entry
ProcessQuery ==
    /\ run_pc = "processing"
    /\ \E o \in QueryOutcomes :
         session_messages' =
           Append(session_messages, [role |-> "assistant", content |-> o])
    /\ run_pc' = "sidebar"
    /\ UNCHANGED <<keys, mcp_client, client_initialized, event, widgets, runs,
                   init_calls, exceptPage>>

\* Sidebar, with the Clear Chat button: st.rerun starts the script again
Sidebar ==
    /\ run_pc = "sidebar"
    /\ IF event = "clear"
       THEN /\ session_messages' = <<>>
            /\ event' = "rerun"
            /\ run_pc' = "state"
       ELSE /\ run_pc' = "waiting"
            /\ UNCHANGED <<session_messages, event>>
    /\ widgets' = widgets \cup {"clear_chat"}
    /\ UNCHANGED <<keys, mcp_client, client_initialized, runs, init_calls,
                   exceptPage>>

\* A widget event that arrives while the script is running ends the run at
\* its next st.* call: st.chat_message (268, 275), st.markdown (287),
\* st.error (295), the sidebar's calls.  The exception Streamlit raises there
\* is not an Exception, so the handlers at 255 and 292 do not see it.
AbortRun ==
    /\ run_pc \in {"input", "processing", "sidebar"}
    /\ runs < MaxRuns
    /\ run_pc' = "aborted"
    /\ UNCHANGED <<keys, session_messages, mcp_client, client_initialized,
                   event, widgets, runs, init_calls, exceptPage>>

NextApp ==
    \/ RunStart
    \/ SessionStateInit
    \/ InitializeClient
    \/ HandleInput
    \/ ProcessQuery
    \/ Sidebar
    \/ AbortRun

SpecApp == InitApp /\ [][NextApp]_vars

\* ------------------------------------------------------------- properties
\* provider s advertises name / the providers that advertise name
Advertises(s, name) == \E i \in 1..Len(tools[s]) : tools[s][i] = name
ListedBy(name) == {s \in Servers : Advertises(s, name)}

\* the catalog build has ended, with or without an error
LoadOver == pc \notin {"start", "connecting"}

\* a provider that does not launch or fails the handshake
Unreachable(o) == o \in {"launch_failed", "handshake_failed"}

\* the positions in the history of the OperationResult for request id
ResultsFor(id) ==
    {i \in 1..Len(messages) :
        /\ messages[i].role = "user"
        /\ messages[i].content[1].type = "tool_result"
        /\ messages[i].content[1].id = id}

HasRaised(cs) == \E i \in 1..Len(cs) : cs[i].outcome = "raised"

\* the processing of the last model turn is over
TurnOver == pc = "awaiting_model" \/ (pc = "idle" /\ result.kind # "none")

\* the dispatch of name ends as tool-not-found for a logical reason
LogicallyNotFound(name) ==
    IF client = "streamlit" THEN ListedBy(name) = {}
    ELSE sessions[name] = 0

\* C1: when a turn requests [opX, opY], opX is not found and opY is a tool
\* some provider offers (no transport error anywhere in the query), then
\* once the turn is processed the history holds a result for opX and, after
\* it, a result for opY.
C1_NotFoundDoesNotShortCircuit ==
    ( /\ TurnOver /\ config = "ok"
      /\ Len(response) = 2
      /\ response[1].type = "tool_use" /\ response[2].type = "tool_use"
      /\ LogicallyNotFound(response[1].name)
      /\ ~LogicallyNotFound(response[2].name)
      /\ ~HasRaised(calls) )
    => \E i \in ResultsFor(response[1].id), j \in ResultsFor(response[2].id) :
          i < j

NoToolUse(r) == \A i \in 1..Len(r) : r[i].type # "tool_use"

\* C3: while and after a turn without operation requests is processed, no
\* dispatch starts, no provider is called and no further model call is
\* made: the query ends with the normal return.
C3_TextOnlyTurnEndsQuery ==
    [][ (pc = "content" /\ NoToolUse(response))
        => /\ pc' \in {"content", "idle"}
           /\ calls' = calls /\ modelCalls' = modelCalls
           /\ tool_result' = tool_result /\ probed' = probed
           /\ has_tool_use' = FALSE
           /\ (idx > Len(response) => pc' = "idle")
           /\ (pc' = "idle"
                 => result'.kind \in {"text", "placeholder", "returned"})
      ]_vars

\* C3 witness: a query that ended on a text-only second turn
C3_Witness ==
    /\ pc = "idle" /\ modelCalls = 2
    /\ response # <<>> /\ NoToolUse(response)
    /\ result.kind \in {"text", "returned"}

\* C4: a request for a name that exactly one provider advertises is only
\* ever invoked on that provider's connection.
C4_InvokedOnlyOnAdvertiser ==
    \A i \in 1..Len(calls) : \A s \in Servers :
        ListedBy(calls[i].name) = {s} => calls[i].server = s

\* C4 witness: the probe passed provider 1, which lists another name, and
\* invoked the tool on provider 2, its only advertiser
C4_Witness ==
    /\ client = "streamlit"
    /\ probed # <<>> /\ probed[1] = "not_listed"
    /\ \E i \in 1..Len(calls) :
          calls[i].server = 2 /\ ListedBy(calls[i].name) = {2}

\* a call that raised and that no later call for the same request made up
\* for (the Streamlit probe goes on to the next provider after a raise)
Unrecovered(cs) ==
    \E i \in 1..Len(cs) :
        /\ cs[i].outcome = "raised"
        /\ \A j \in (i + 1)..Len(cs) :
              cs[j].id = cs[i].id => cs[j].outcome = "raised"

\* the calls added by a step all belong to a request whose call raised
OnlyRetries(before, after) ==
    \A j \in 1..Len(after) :
        j > Len(before) =>
            \E i \in 1..Len(before) :
                before[i].outcome = "raised" /\ before[i].id = after[j].id

\* C5 as stated: once a call has raised, the query makes no further model
\* call and dispatches no other request.
C5_RaiseEndsQuery ==
    [][ HasRaised(calls)
        => /\ modelCalls' <= modelCalls
           /\ OnlyRetries(calls, calls') ]_vars

\* C5 amended: once a call has raised and no later provider has answered
\* the same request, the query makes no further model call, dispatches no
\* other request and, when it ends, ends with a query-level failure.
C5_UnrecoveredRaiseEndsQuery ==
    [][ Unrecovered(calls)
        => /\ modelCalls' <= modelCalls
           /\ OnlyRetries(calls, calls')
           /\ (pc' = "idle" => result'.kind \in {"raised", "tool_failed"})
      ]_vars

\* C5 witness: the probe met a raise, no later provider answered, and the
\* query ended with the failure while a request of the turn was left
C5_Witness ==
    /\ pc = "idle" /\ Unrecovered(calls)
    /\ result.kind = "tool_failed"
    /\ idx < Len(response)

\* the catalog entries that came from provider s
FromProvider(s) ==
    {i \in 1..Len(available_tools) : available_tools[i].description = s}

\* C6: when a provider is unreachable at load time and another is
\* reachable, loading succeeds, every reachable provider's operations are
\* in the catalog and none of the unreachable provider's are.
C6_UnreachableProviderIsSkipped ==
    ( /\ LoadOver /\ config = "ok"
      /\ \E i \in 1..Len(connects) : Unreachable(connects[i])
      /\ \E i \in 1..Len(connects) : connects[i] = "ok" )
    => /\ loaded = "ok"
       /\ \A s \in 1..Len(connects) :
             /\ connects[s] = "ok" =>
                   \A k \in 1..Len(tools[s]) :
                      \E i \in FromProvider(s) :
                         available_tools[i].name = tools[s][k]
             /\ Unreachable(connects[s]) => FromProvider(s) = {}

\* C7: when every configured provider is unreachable, loading fails.
C7_NoProvidersAvailable ==
    ( /\ LoadOver /\ config = "ok"
      /\ connects # <<>>
      /\ \A i \in 1..Len(connects) : Unreachable(connects[i]) )
    => loaded = "failed"

\* C8: the catalog never holds two entries with the same operation name.
C8_CatalogNamesUnique ==
    \A i, j \in 1..Len(available_tools) :
        i # j => available_tools[i].name # available_tools[j].name

\* the provider registered first among those that advertise name
FirstLister(name) ==
    CHOOSE s \in ListedBy(name) : \A t \in ListedBy(name) : s <= t

\* C9: a request for a name that several providers advertise is invoked on
\* the one registered first: through the sessions map when every provider
\* was connected, and in the probe unless the earlier advertisers could not
\* be reached or raised in this dispatch.
C9_FirstRegisteredWins ==
    /\ ( /\ client = "terminal"
         /\ \A i \in 1..Len(connects) : connects[i] = "ok" )
       => \A i \in 1..Len(calls) :
             Cardinality(ListedBy(calls[i].name)) > 1
                => calls[i].server = FirstLister(calls[i].name)
    /\ client = "streamlit"
       => \A k \in 1..Len(probed) :
             probed[k] \in CallOutcomes
                => \A t \in 1..(k - 1) :
                      Advertises(server_configs[t], calls[Len(calls)].name)
                         => probed[t] \in {"unreachable", "raised"}

\* C10: a second build on the same client, with the providers answering as
\* in the first, leaves the catalog and the routing table as the first
\* build left them.
C10_RebuildIsIdempotent ==
    ( /\ builds = 2 /\ LoadOver /\ loaded = "ok"
      /\ connects = previous.connects )
    => /\ available_tools = previous.available_tools
       /\ sessions = previous.sessions

\* a provider that launched and completed the handshake and the listing
Reached(o) == o = "ok"

\* C11: after loading a valid configuration in which at least one provider
\* is reachable, loading has succeeded and the catalog is non-empty exactly
\* when some reachable provider reports at least one operation.
C11_LoadSucceedsWithReachableProvider ==
    ( /\ LoadOver /\ config = "ok"
      /\ \E i \in 1..Len(connects) : Reached(connects[i]) )
    => /\ loaded = "ok"
       /\ (available_tools # <<>>)
             <=> \E s \in 1..Len(connects) :
                    Reached(connects[s]) /\ tools[s] # <<>>

\* the first operation request of the current turn sits at position k
FirstRequest(k) ==
    /\ k \in 1..Len(response)
    /\ response[k].type = "tool_use"
    /\ \A j \in 1..(k - 1) : response[j].type # "tool_use"

\* the dispatch of request id came back with a result flagged as an error
ReturnedError(id) ==
    \E i \in 1..Len(calls) : calls[i].id = id /\ calls[i].outcome = "is_error"

\* the last model turn is processed and the query has not ended on a
\* failure of the model call or on a raise
TurnProcessed ==
    \/ pc = "awaiting_model"
    \/ pc = "idle" /\ result.kind \in
                          {"text", "placeholder", "returned", "tool_failed"}

\* C12: when the dispatch of the first request of a turn fails without a
\* transport error (the tool is not found, or the provider answers with an
\* error result), then once the turn is processed the history holds an
\* OperationResult with that request's id and, if the request was the last
\* block of the turn, the model is called again; the query is not aborted.
C12_RecoverableErrorIsReported ==
    ( TurnProcessed /\ config = "ok" /\ ~HasRaised(calls) )
    => \A k \in 1..Len(response) :
          ( /\ FirstRequest(k)
            /\ \/ LogicallyNotFound(response[k].name)
               \/ ReturnedError(response[k].id) )
          => /\ ResultsFor(response[k].id) # {}
             /\ (k = Len(response) => pc = "awaiting_model")

\* a maximum turn count, set to the number of turns with an operation
\* request that the model can produce in one query
TurnLimit == MaxBlocks

\* C13: one query never makes more model calls than the maximum turn
\* count: after TurnLimit turns that each requested an operation,
\* process_query stops instead of calling the model again.
C13_TurnLimitStopsQuery == modelCalls <= TurnLimit

\* the block with id k that the model emitted in this query: a block of the
\* current turn, or one recorded in an assistant message of an earlier turn
BlockWithId(k) ==
    IF \E i \in 1..Len(response) : response[i].id = k
    THEN response[CHOOSE i \in 1..Len(response) : response[i].id = k]
    ELSE LET m == CHOOSE i \in 1..Len(messages) :
                     /\ messages[i].role = "assistant"
                     /\ \E j \in 1..Len(messages[i].content) :
                           messages[i].content[j].id = k
             j == CHOOSE j \in 1..Len(messages[m].content) :
                     messages[m].content[j].id = k
         IN messages[m].content[j]

\* every block the model emitted in this query, in emission order
AllEmitted == [k \in 1..emitted |-> BlockWithId(k)]

IsText(b) == b.type = "text"

\* process_query of the Streamlit client has returned normally
NormalCompletion ==
    /\ client = "streamlit" /\ pc = "idle"
    /\ result.kind \in {"text", "placeholder"}

\* C14 as stated: on normal completion the returned string is made of the
\* assistant text segments of all turns, in emission order, and of nothing
\* else; it is the placeholder exactly when no text segment was produced.
C14_ReturnsTextSegmentsOnly ==
    NormalCompletion
    => /\ result.text = SelectSeq(AllEmitted, IsText)
       /\ result.kind = "placeholder" <=> SelectSeq(AllEmitted, IsText) = <<>>

\* what the block contributes to the returned string: a text segment
\* itself, an operation request the line with its name and result payload
Shown(b) ==
    IF b.type = "text" THEN b
    ELSE messages[CHOOSE i \in ResultsFor(b.id) : TRUE].content[1]

\* C14 amended: on normal completion the returned string is made, in
\* emission order, of the assistant text segments of all turns and, for
\* every operation request, of a line with the operation's name and result
\* payload; it is the placeholder exactly when the model emitted nothing.
C14_ReturnsTextAndToolResults ==
    NormalCompletion
    => /\ \A k \in 1..emitted :
             BlockWithId(k).type = "tool_use"
                => /\ ResultsFor(k) # {}
                   /\ Shown(BlockWithId(k)).name = BlockWithId(k).name
       /\ result.text = [k \in 1..emitted |-> Shown(BlockWithId(k))]
       /\ result.kind = "placeholder" <=> emitted = 0

\* C14 witness: a normal return that carries a text segment and, after it,
\* the result line of the operation the same turn requested
C14_Witness ==
    /\ NormalCompletion /\ Len(result.text) = 2
    /\ result.text[1].type = "text"
    /\ result.text[2].type = "tool_result"

\* C15: however main ends (quit, configuration load failure, exception),
\* no provider connection is left open, also when the exit of some context
\* raised, and a failing close does not leave main as an exception.
C15_CleanupReleasesAndDoesNotRaise ==
    pc = "exited"
    => /\ exit_stack = <<>>
       /\ ended.raised # "close"

\* the positions in the history that hold an OperationResult
ResultPositions ==
    {p \in 1..Len(messages) :
        messages[p].role = "user" /\ messages[p].content[1].type = "tool_result"}

\* C16: the provider calls of a query are made in the order the model
\* emitted the requests; every OperationResult in the history carries the
\* id and name of a request of the assistant message right before it; the
\* results stand in emission order, one per request; and before a request
\* is dispatched every request dispatched before it has its result.
C16_DispatchInEmissionOrder ==
    /\ \A i, j \in 1..Len(calls) : i < j => calls[i].id <= calls[j].id
    /\ \A p \in ResultPositions :
          /\ p > 1 /\ messages[p - 1].role = "assistant"
          /\ \E k \in 1..Len(messages[p - 1].content) :
                /\ messages[p - 1].content[k].type = "tool_use"
                /\ messages[p - 1].content[k].id = messages[p].content[1].id
                /\ messages[p - 1].content[k].name =
                      messages[p].content[1].name
    /\ \A p, q \in ResultPositions :
          p < q => messages[p].content[1].id < messages[q].content[1].id
    /\ \A i, j \in 1..Len(calls) :
          calls[i].id < calls[j].id => ResultsFor(calls[i].id) # {}

\* C16 witness: one turn requested two operations and both results are in
\* the history, each after its own assistant message
C16_Witness ==
    \E p, q \in ResultPositions :
        /\ p < q
        /\ messages[p - 1].turn = messages[q - 1].turn
        /\ Len(calls) >= 2

\* C17: when a provider that lists the requested operation raised during
\* the invocation, the failure _execute_tool returns for this request is
\* not the tool-not-found failure.
C17_RaiseIsNotReportedAsNotFound ==
    ( /\ client = "streamlit"
      /\ \E i \in 1..Len(probed) : probed[i] = "raised" )
    => tool_result.error # "not_found"

\* the position of name in a provider's answer to list_tools
ListingPosition(listing, name) ==
    CHOOSE k \in 1..Len(listing) : listing[k] = name

\* C18: the catalog holds every operation of every provider loaded so far;
\* of two entries, the earlier one comes from a provider configured
\* earlier or, when both come from one provider, stands earlier in that
\* provider's listing.
C18_CatalogInRegistrationOrder ==
    /\ \A s \in 1..Len(connects) :
          connects[s] = "ok" => Cardinality(FromProvider(s)) = Len(tools[s])
    /\ \A i, j \in 1..Len(available_tools) :
          i < j =>
            LET a == available_tools[i]
                b == available_tools[j]
            IN \/ a.description < b.description
               \/ /\ a.description = b.description
                  /\ ListingPosition(tools[a.description], a.name)
                        < ListingPosition(tools[b.description], b.name)

\* C18 witness: two providers that list the same two names in opposite
\* orders are both in the catalog
C18_Witness ==
    /\ LoadOver /\ Len(available_tools) = 4
    /\ available_tools[1].name = available_tools[4].name
    /\ available_tools[1].description # available_tools[4].description

\* C19: once call_tool has raised on a provider's session, the terminal
\* client dispatches no later request on that session, in this query or in
\* a later one.
C19_ErroredConnectionIsNotRouted ==
    [][ ( /\ client = "terminal"
          /\ Len(calls') = Len(calls) + 1 )
        => calls'[Len(calls')].server \notin errored ]_vars

\* block b is recorded in an assistant message of the history
Recorded(b) ==
    \E i \in 1..Len(messages) :
        /\ messages[i].role = "assistant"
        /\ \E j \in 1..Len(messages[i].content) : messages[i].content[j] = b

\* C20: when a query has ended on a turn without operation requests, the
\* history ends with the assistant message of that turn; and when a turn
\* with operation requests is processed, every text segment of the turn,
\* also one emitted after the last request, is recorded in the history.
C20_LastTurnIsInHistory ==
    /\ ( /\ pc = "idle" /\ response # <<>>
         /\ result.kind \in {"text", "placeholder", "returned"} )
       => /\ messages[Len(messages)].role = "assistant"
          /\ messages[Len(messages)].content = response
    /\ pc = "awaiting_model"
       => \A k \in 1..Len(response) :
             response[k].type = "text" => Recorded(response[k])

\* process_query is running
InQuery == pc \in {"awaiting_model", "content", "execute_tool"}

\* how far process_query has come: the model calls made, the position in
\* the current turn, and within one block the providers probed (a
\* processed turn waiting for the next model call ranks last)
Rank == IF pc = "awaiting_model" THEN Len(server_configs) + 2 ELSE probe

Advanced ==
    \/ modelCalls' > modelCalls
    \/ modelCalls' = modelCalls /\ idx' > idx
    \/ modelCalls' = modelCalls /\ idx' = idx /\ Rank' > Rank

\* C21: a step of process_query leaves the loop only with the normal
\* return after a fully processed turn without operation requests, or with
\* a failure; every other step moves the query forward (the next block, the
\* next provider of the probe or the next model call) within the bounds of
\* the turn, so the loop never spins in place, and a processed turn, also
\* one whose tool was not found, is followed by a new model call.
C21_LoopLeftOnlyOnFinalTurnOrFailure ==
    [][ InQuery
        => /\ pc' = "idle"
              => \/ /\ result'.kind \in {"text", "placeholder", "returned"}
                    /\ NoToolUse(response) /\ idx > Len(response)
                 \/ result'.kind \in {"error", "raised", "tool_failed"}
           /\ pc' # "idle"
              => /\ InQuery' /\ Advanced
                 /\ idx' <= Len(response') + 1
                 /\ probe' <= Len(server_configs) + 1
           /\ (pc = "awaiting_model" /\ pc' # "idle")
              => modelCalls' = modelCalls + 1
      ]_vars

\* C21 witness: the terminal client is back at the model call after a turn
\* whose requested tool had no session
C21_Witness ==
    /\ client = "terminal" /\ pc = "awaiting_model" /\ modelCalls = 1
    /\ \E k \in 1..Len(response) :
          response[k].type = "tool_use" /\ sessions[response[k].name] = 0

\* the last query ended on a failure of the model call
ModelCallFailed ==
    /\ pc = "idle"
    /\ IF client = "streamlit" THEN result.kind = "error"
       ELSE result.kind = "raised" /\ ~HasRaised(calls)

\* C22: a failure of the model call ends the query with the query-level
\* failure (the error string in the Streamlit client, the exception that
\* chat_loop prints in the terminal client) and leaves the catalog, the
\* connections and the session as they were; after it the next query is
\* accepted, and it starts from a history that holds its own user message
\* alone.
C22_ModelFailureAbortsQueryOnly ==
    /\ [](ModelCallFailed
            => /\ ended = NotEnded
               /\ nq < MaxQueries => ENABLED (StreamlitQuery \/ TerminalQuery))
    /\ [][ /\ (pc = "awaiting_model" /\ pc' = "idle")
              => /\ ModelCallFailed'
                 /\ UNCHANGED <<catalogVars, messages>>
           /\ (ModelCallFailed /\ nq' = nq + 1)
              => /\ pc' = "awaiting_model"
                 /\ messages' = <<UserMessage>>
                 /\ modelCalls' = 0 /\ calls' = <<>> /\ response_text' = <<>>
         ]_vars

\* C22 witness: the second model call of a query failed, after a turn with
\* an operation request, and the session can take another query
C22_Witness ==
    /\ ModelCallFailed /\ modelCalls = 2 /\ Len(messages) > 1
    /\ nq < MaxQueries

\* C23: for a forecast response with n periods, n >= 0, get_forecast
\* returns the formatted forecasts of the first min(5, n) periods, in
\* order, joined by the separator, and does not fail.
C23_ForecastShowsFirstFivePeriods ==
    (fpc = "done" /\ returned.kind \in {"text", "raised"})
    => /\ returned.kind = "text"
       /\ returned.text =
             Join([i \in 1..Min(ShownPeriods, Len(periods)) |->
                      FormatForecast(periods[i])])

\* message j holds an OperationResult
IsResult(j) ==
    messages[j].role = "user" /\ messages[j].content[1].type = "tool_result"

\* the request with this id, made in message i, has its result in the run
\* of result messages that follows message i immediately
AnsweredRightAfter(i, id) ==
    \E j \in (i + 1)..Len(messages) :
        /\ IsResult(j) /\ messages[j].content[1].id = id
        /\ \A m \in (i + 1)..j : IsResult(m)

\* C24: whenever process_query is about to call the model, every assistant
\* message of the history that holds operation requests is immediately
\* followed by the results of all its requests, and no two assistant
\* messages come from the same model turn.
C24_HistoryWellFormedAtModelCall ==
    pc = "awaiting_model"
    => /\ \A i \in 1..Len(messages) :
             messages[i].role = "assistant"
                => \A k \in 1..Len(messages[i].content) :
                      messages[i].content[k].type = "tool_use"
                         => AnsweredRightAfter(i, messages[i].content[k].id)
       /\ \A i, j \in 1..Len(messages) :
             ( /\ i # j
               /\ messages[i].role = "assistant"
               /\ messages[j].role = "assistant" )
             => messages[i].turn # messages[j].turn

\* the contexts of one kind that are open
OpenOfKind(k) == {i \in 1..Len(scope_stack) : scope_stack[i].kind = k}

\* C25: during initialize_tools and _execute_tool of the Streamlit client
\* at most one transport and one session are open, both of the provider of
\* the current iteration, and when the call has returned or raised no
\* context is open.
C25_ConnectionsAreScoped ==
    /\ \A i \in 1..Len(scope_stack) : scope_stack[i].server = server_idx
    /\ Cardinality(OpenOfKind("stdio")) <= 1
    /\ Cardinality(OpenOfKind("session")) <= 1
    /\ spc \in {"idle", "returned", "raised"} => scope_stack = <<>>

\* C25 witness: _execute_tool returned the failure that a raising context
\* exit caused, at the second provider, with nothing left open
C25_Witness ==
    /\ spc = "returned" /\ method = "_execute_tool"
    /\ ended_with = "execution_error" /\ server_idx = 2
    /\ scope_stack = <<>>

\* the calls of initialize_tools that returned
Successes(cs) == {i \in 1..Len(cs) : cs[i] = "ok"}

\* C26: over the reruns of one UI session the client is initialized
\* successfully at most once: initialize_tools is called only while
\* client_initialized is false, client_initialized is true only if mcp_client
\* is set, once true it stays true, and a run whose initialization failed
\* stops there, leaving the transcript alone, so a query is processed only
\* with an initialized client.
C26_ClientInitializedAtMostOnce ==
    /\ [](/\ Cardinality(Successes(init_calls)) <= 1
          /\ client_initialized => mcp_client = "client"
          /\ run_pc = "processing" =>
               client_initialized /\ mcp_client = "client")
    /\ [][ /\ init_calls' # init_calls => ~client_initialized
           /\ client_initialized => client_initialized'
           /\ (Len(init_calls') > Len(init_calls)
                 /\ init_calls'[Len(init_calls')] = "failed") =>
                /\ run_pc' = "waiting"
                /\ ~client_initialized'
                /\ session_messages' = session_messages ]_vars

\* a query was answered in a session whose first initialization failed and
\* whose second succeeded, and a later run found the client initialized
C26_Witness ==
    /\ Len(init_calls) = 2
    /\ init_calls[1] = "failed" /\ init_calls[2] = "ok"
    /\ client_initialized /\ mcp_client = "client"
    /\ runs >= 3
    /\ run_pc = "processing"

\* entry i of a transcript is a user entry at odd i, an assistant entry at
\* even i
Alternates(t) ==
    \A i \in 1..Len(t) :
        t[i].role = IF i % 2 = 1 THEN "user" ELSE "assistant"

\* C27: once a run of the page has finished, the transcript alternates user
\* and assistant entries starting with a user entry, every prompt's user
\* entry being followed by its assistant entry (the response or an error
\* text).
C27_TranscriptAlternates ==
    run_pc = "waiting" =>
        /\ Alternates(session_messages)
        /\ Len(session_messages) % 2 = 0
====
